---- MODULE Spec2Model ----
(***************************************************************************)
(* Port knocking server (src/port_knocking/knock_server.py): the           *)
(* KnockTracker state machine, the listener threads that feed it, and the  *)
(* iptables rule list that open_protected_port_for_ip and its revoke       *)
(* threads edit.                                                           *)
(*                                                                         *)
(* Time is counted in whole seconds.  The iptables backend is modelled as  *)
(* reliable: a command fails only when no rule matches it.                 *)
(*                                                                         *)
(* Spec is the server from _ensure_default_block on, with register_knock   *)
(* as one step under its lock.  FairSpec adds the scheduling of time and   *)
(* of the revoke threads, RestartSpec starts on a chain that has the DROP  *)
(* rule, ErrSpec adds socket errors in the listeners, ConfigSpec starts at *)
(* the parsing of --sequence in main, and LockSpec takes the lock, the     *)
(* read and the write of register_knock as separate steps.                 *)
(***************************************************************************)
EXTENDS Integers, Sequences, FiniteSets, TLC

(* ---------------------------------------------------------------- bounds *)
\* Knocks accepted by all listeners together in one run.
MaxKnocks == 4
\* Last second at which a knock arrives.
MaxClock == 2

(* ------------------------------------------------- configuration inputs *)
\* Source addresses that knock.
IPs == {"10.0.0.1", "10.0.0.2"}

DEFAULT_KNOCK_SEQUENCE == <<1234, 5678, 9012>>

\* --sequence values the server is started with: the default and two
\* shorter lists of distinct ports.
Sequences == {<<1234>>, <<1234, 5678>>, DEFAULT_KNOCK_SEQUENCE}

\* --window value the server is started with: KnockTracker.window, in seconds.
window == 1

\* --ttl value the server is started with: open_ttl, in seconds.
open_ttl == 1

\* for _ in range(5) in revoke.
RevokeAttempts == 5

\* The DROP rule of the protected port, as an entry of the INPUT chain.
DROP == "DROP"

\* Listener threads, one per port of the sequence, numbered by the position
\* of their port in it.
Listeners == 1..Len(DEFAULT_KNOCK_SEQUENCE)

VARIABLES
    sequence,   \* KnockTracker.sequence, fixed at startup; in main, before
                \* it is parsed, the characters of args.sequence
    mainpc,     \* position of the main thread in listen_for_knocks
    fw,         \* the INPUT chain: DROP or the source address of an ACCEPT rule
    state,      \* KnockTracker.state: ip -> <<next_index, start_time>>
    clock,      \* time.time()
    lpc,        \* position of each listener thread
    lknock,     \* the knock a listener is handling: [ip, port, now, err, seen]
    revokers,   \* the revoke threads that have not ended: [ip, wake, left]
                \* wake is -1 until the thread has called time.sleep
    run,        \* per ip, the longest tail of its calls whose ports are a prefix of sequence
    last,       \* the last register_knock call: who, arguments, prior entry, result
    shadow,     \* per ip, the state a tracker fed only that ip's knocks has
    completed,  \* per ip, register_knock calls that returned True
    opened,     \* per ip, calls of open_protected_port_for_ip
    revoked,    \* per ip, ACCEPT rules the revoke threads have deleted
    knocks,     \* connections accepted so far
    lock        \* KnockTracker.lock: the listener that holds it, or 0

vars == <<sequence, mainpc, fw, state, clock, lpc, lknock, revokers,
          run, last, shadow, completed, opened, revoked, knocks, lock>>

(* ------------------------------------------------------------ dict helpers *)
EmptyDict == [k \in {} |-> <<>>]

\* Mutant of Del: self.state.clear() in place of del self.state[ip].
DelClears(d, k) == [x \in {} |-> <<>>]

\* del d[k]
Del(d, k) == [x \in (DOMAIN d) \ {k} |-> d[x]]

\* d[k] = v
Put(d, k, v) == [x \in (DOMAIN d) \cup {k} |-> IF x = k THEN v ELSE d[x]]

\* d.get(k), with <<>> for a missing key
Get(d, k) == IF k \in DOMAIN d THEN d[k] ELSE <<>>

(* ------------------------------------------------- KnockTracker.register_knock *)
\* Python lists are 0-based: seq[i] is the TLA+ element i + 1.
At(seq, i) == seq[i + 1]

\* Mutant of Absent: the first knock starts a sequence whatever its port.
AbsentAnyPort(seq, st, ip, port, now) ==
    [state |-> Put(st, ip, <<1, now>>), ret |-> "False"]

\* Mutant of Absent: the new entry holds the index of the port just seen,
\* 0, in place of the index of the port expected next.
AbsentIndexZero(seq, st, ip, port, now) ==
    IF port = At(seq, 0)
    THEN [state |-> Put(st, ip, <<0, now>>), ret |-> "False"]
    ELSE [state |-> st, ret |-> "False"]

\* if ip not in self.state: start only if the first knock matches.
Absent(seq, st, ip, port, now) ==
    IF port = At(seq, 0)
    THEN [state |-> Put(st, ip, <<1, now>>), ret |-> "False"]
    ELSE [state |-> st, ret |-> "False"]

\* Mutant of WindowExpired: the operands of the subtraction swapped.
WindowExpiredSwapped(now, start) == start - now > window

\* now - start > self.window
WindowExpired(now, start) == now - start > window

\* Mutant of Expired: the stale entry is not deleted.
ExpiredKeepsEntry(seq, st, ip, port, now) ==
    IF port = At(seq, 0)
    THEN [state |-> Put(st, ip, <<1, now>>), ret |-> "False"]
    ELSE [state |-> st, ret |-> "False"]

\* Window expired -> reset, then re-check if this knock starts a new sequence.
Expired(seq, st, ip, port, now) ==
    IF port = At(seq, 0)
    THEN [state |-> Put(Del(st, ip), ip, <<1, now>>), ret |-> "False"]
    ELSE [state |-> Del(st, ip), ret |-> "False"]

\* Mutant of Advance: the entry is not deleted on completion.
AdvanceKeepsEntry(seq, st, ip, port, now) ==
    LET idx == st[ip][1] + 1
        start == st[ip][2]
    IN  IF idx = Len(seq)
        THEN [state |-> st, ret |-> "True"]
        ELSE [state |-> Put(st, ip, <<idx, start>>), ret |-> "False"]

\* port == expected: idx += 1, complete or store the advance.
Advance(seq, st, ip, port, now) ==
    LET idx == st[ip][1] + 1
        start == st[ip][2]
    IN  IF idx = Len(seq)
        THEN [state |-> Del(st, ip), ret |-> "True"]
        ELSE [state |-> Put(st, ip, <<idx, start>>), ret |-> "False"]

\* Mutant of WrongKnock: a wrong knock keeps the progress made so far.
WrongKnockKeepsEntry(seq, st, ip, port, now) ==
    IF port = At(seq, 0)
    THEN [state |-> Put(Del(st, ip), ip, <<1, now>>), ret |-> "False"]
    ELSE [state |-> st, ret |-> "False"]

\* Wrong knock -> reset; restart if they hit the first port again.
WrongKnock(seq, st, ip, port, now) ==
    IF port = At(seq, 0)
    THEN [state |-> Put(Del(st, ip), ip, <<1, now>>), ret |-> "False"]
    ELSE [state |-> Del(st, ip), ret |-> "False"]

\* The body of register_knock under the lock.  self.sequence[idx] raises
\* IndexError when idx = len(sequence); the dict is then left as it was.
register_knock(seq, st, ip, port, now) ==
    IF ip \notin DOMAIN st
    THEN Absent(seq, st, ip, port, now)
    ELSE LET idx == st[ip][1]
             start == st[ip][2]
         IN  IF WindowExpired(now, start)
             THEN Expired(seq, st, ip, port, now)
             ELSE IF idx >= Len(seq)
                  THEN [state |-> st, ret |-> "IndexError"]
                  ELSE IF port = At(seq, idx)
                       THEN Advance(seq, st, ip, port, now)
                       ELSE WrongKnock(seq, st, ip, port, now)

(* ------------------------------------------------------------ iptables *)
\* Mutant of DeleteRule: only the rule at the top of the chain is looked at.
DeleteRuleAtTop(chain, r) ==
    IF chain # <<>> /\ Head(chain) = r THEN Tail(chain) ELSE chain

\* Mutant of DeleteRule: the rule is matched on the port alone, so the first
\* rule of the protected port goes, whatever its source and target.
DeleteRuleAnyTarget(chain, r) ==
    IF chain = <<>> THEN <<>> ELSE Tail(chain)

\* iptables -D: delete the first rule equal to r; the command fails, and
\* _run_iptables swallows the failure, when there is none.
RECURSIVE DeleteRule(_, _)
DeleteRule(chain, r) ==
    IF chain = <<>> THEN <<>>
    ELSE IF Head(chain) = r THEN Tail(chain)
    ELSE <<Head(chain)>> \o DeleteRule(Tail(chain), r)

\* Mutant of InsertRule: iptables -A in place of iptables -I INPUT 1.
InsertRuleAtEnd(chain, r) == Append(chain, r)

\* iptables -I INPUT 1
InsertRule(chain, r) == <<r>> \o chain

\* iptables -A INPUT
AppendRule(chain, r) == Append(chain, r)

\* Number of rules equal to r.
RECURSIVE CountRule(_, _)
CountRule(chain, r) ==
    IF chain = <<>> THEN 0
    ELSE (IF Head(chain) = r THEN 1 ELSE 0) + CountRule(Tail(chain), r)

(* ------------------------------------------------------------------ Init *)
NoKnock == [ip |-> "", port |-> 0, now |-> 0, err |-> FALSE, seen |-> <<>>]
NoCall == [l |-> 0, ip |-> "", port |-> 0, now |-> 0, pre |-> <<>>,
           prev |-> "None", ret |-> "None", alone |-> "None"]

Init ==
    /\ sequence \in Sequences
    /\ mainpc = "ensure_delete"
    /\ fw \in {<<>>, <<DROP>>}
    /\ state = EmptyDict
    /\ clock = 0
    /\ lpc = [l \in Listeners |-> "unstarted"]
    /\ lknock = [l \in Listeners |-> NoKnock]
    /\ revokers = <<>>
    /\ run = [ip \in IPs |-> <<>>]
    /\ last = NoCall
    /\ shadow = [ip \in IPs |-> EmptyDict]
    /\ completed = [ip \in IPs |-> 0]
    /\ opened = [ip \in IPs |-> 0]
    /\ revoked = [ip \in IPs |-> 0]
    /\ knocks = 0
    /\ lock = 0

(* ------------------------------------------------------------------ main *)
\* A string is the sequence of the code points of its characters: "1234"
\* is <<49, 50, 51, 52>>.

\* The characters int() takes as decimal digits are those of the Unicode
\* category Nd, which come in runs of ten, 0 to 9: the code point of the
\* digit zero of every run, ASCII "0" = 48 first.
DecimalZeros ==
    { 48, 1632, 1776, 1984, 2406, 2534, 2662, 2790, 2918, 3046, 3174,
      3302, 3430, 3558, 3664, 3792, 3872, 4160, 4240, 6112, 6160,
      6470, 6608, 6784, 6800, 6992, 7088, 7232, 7248, 42528, 43216,
      43264, 43472, 43504, 43600, 44016, 65296, 66720, 68912, 69734,
      69872, 69942, 70096, 70384, 70736, 70864, 71248, 71360, 71472,
      71904, 72016, 72784, 73040, 73120, 92768, 92864, 93008, 120782,
      120792, 120802, 120812, 120822, 123200, 123632, 125264, 130032 }

IsDigit(c) == \E z \in DecimalZeros : c \in z..(z + 9)

DigitValue(c) == c - (CHOOSE z \in DecimalZeros : c \in z..(z + 9))

\* str.split(sep): the pieces between the separators, one empty piece for
\* the empty string.
RECURSIVE split(_, _)
split(str, sep) ==
    IF \A i \in DOMAIN str : str[i] # sep THEN <<str>>
    ELSE LET i == CHOOSE k \in DOMAIN str :
                      str[k] = sep /\ \A j \in 1..(k - 1) : str[j] # sep
         IN  <<SubSeq(str, 1, i - 1)>> \o split(SubSeq(str, i + 1, Len(str)), sep)

\* Whitespace int() strips from both ends of its argument: \t \n \v \f \r,
\* the space, U+0085, U+00A0 and the Unicode space separators.
Whitespace ==
    (9..13) \cup {32, 133, 160, 5760} \cup (8192..8202)
            \cup {8232, 8233, 8239, 8287, 12288}

\* The stripping int() does before it reads the literal.
RECURSIVE strip(_)
strip(str) ==
    IF str = <<>> THEN str
    ELSE IF Head(str) \in Whitespace THEN strip(Tail(str))
    ELSE IF str[Len(str)] \in Whitespace
         THEN strip(SubSeq(str, 1, Len(str) - 1))
    ELSE str

\* The body of an int literal: whitespace stripped, the sign, "+" = 43 or
\* "-" = 45, taken off.
Unsigned(tok) ==
    LET t == strip(tok)
    IN  IF t # <<>> /\ Head(t) \in {43, 45} THEN Tail(t) ELSE t

\* int(tok) raises ValueError: the body is not a run of digits with single
\* underscores, "_" = 95, between digits, or it has more digits than
\* sys.get_int_max_str_digits(), 4300.
ValueError(tok) ==
    LET b == Unsigned(tok)
    IN  \/ b = <<>>
        \/ \E i \in DOMAIN b : ~IsDigit(b[i]) /\ b[i] # 95
        \/ \E i \in DOMAIN b :
              b[i] = 95 /\ (i = 1 \/ i = Len(b) \/ b[i + 1] = 95)
        \/ Len(SelectSeq(b, IsDigit)) > 4300

RECURSIVE DigitsValue(_)
DigitsValue(ds) ==
    IF ds = <<>> THEN 0
    ELSE 10 * DigitsValue(SubSeq(ds, 1, Len(ds) - 1)) + DigitValue(ds[Len(ds)])

\* int(tok) for a token that is a literal.
int(tok) ==
    LET v == DigitsValue(SelectSeq(Unsigned(tok), IsDigit))
    IN  IF Head(strip(tok)) = 45 THEN 0 - v ELSE v

\* --sequence values, valid and not: the three lists of Sequences, then the
\* empty string, "abc", "1234,", "1234,1234", "0,0", "-1",
\* " 1234, 5678 ", "1234\r", "1234" in Arabic-Indic digits, "1_0", "1__0",
\* "_1" and a literal of 4301 digits.
Comma == <<44>>
S1234 == <<49, 50, 51, 52>>
S5678 == <<53, 54, 55, 56>>
S9012 == <<57, 48, 49, 50>>
Args ==
    { S1234, S1234 \o Comma \o S5678,
      S1234 \o Comma \o S5678 \o Comma \o S9012,
      <<>>, <<97, 98, 99>>, S1234 \o Comma,
      S1234 \o Comma \o S1234, <<48, 44, 48>>, <<45, 49>>,
      <<32>> \o S1234 \o Comma \o <<32>> \o S5678 \o <<32>>,
      S1234 \o <<13>>, <<1633, 1634, 1635, 1636>>,
      <<49, 95, 48>>, <<49, 95, 95, 48>>, <<95, 49>>,
      [i \in 1..4301 |-> 49] }

\* The state main starts in: args.sequence not yet parsed.
ConfigInit ==
    /\ sequence \in Args
    /\ mainpc = "main"
    /\ fw \in {<<>>, <<DROP>>}
    /\ state = EmptyDict
    /\ clock = 0
    /\ lpc = [l \in Listeners |-> "unstarted"]
    /\ lknock = [l \in Listeners |-> NoKnock]
    /\ revokers = <<>>
    /\ run = [ip \in IPs |-> <<>>]
    /\ last = NoCall
    /\ shadow = [ip \in IPs |-> EmptyDict]
    /\ completed = [ip \in IPs |-> 0]
    /\ opened = [ip \in IPs |-> 0]
    /\ revoked = [ip \in IPs |-> 0]
    /\ knocks = 0
    /\ lock = 0

\* main: [int(port) for port in args.sequence.split(",")], "," = 44; a
\* ValueError raises SystemExit, anything else goes on to listen_for_knocks.
Main ==
    /\ mainpc = "main"
    /\ LET toks == split(sequence, 44)
       IN  IF \E i \in DOMAIN toks : ValueError(toks[i])
           THEN mainpc' = "exited" /\ UNCHANGED sequence
           ELSE /\ mainpc' = "ensure_delete"
                /\ sequence' = [i \in DOMAIN toks |-> int(toks[i])]
    /\ UNCHANGED <<fw, state, clock, lpc, lknock, revokers,
                   run, last, shadow, completed, opened, revoked, knocks, lock>>

(* ------------------------------------------------------- main thread *)
\* _ensure_default_block, first command: iptables -D ... -j DROP.
EnsureDefaultBlockDelete ==
    /\ mainpc = "ensure_delete"
    /\ fw' = DeleteRule(fw, DROP)
    /\ mainpc' = "ensure_append"
    /\ UNCHANGED <<sequence, state, clock, lpc, lknock, revokers,
                   run, last, shadow, completed, opened, revoked, knocks, lock>>

\* _ensure_default_block, second command: iptables -A ... -j DROP.
EnsureDefaultBlockAppend ==
    /\ mainpc = "ensure_append"
    /\ fw' = AppendRule(fw, DROP)
    /\ mainpc' = "tracker"
    /\ UNCHANGED <<sequence, state, clock, lpc, lknock, revokers,
                   run, last, shadow, completed, opened, revoked, knocks, lock>>

\* tracker = KnockTracker(sequence, window_seconds): an empty dict.
NewTracker ==
    /\ mainpc = "tracker"
    /\ state' = EmptyDict
    /\ mainpc' = "start"
    /\ UNCHANGED <<sequence, fw, clock, lpc, lknock, revokers,
                   run, last, shadow, completed, opened, revoked, knocks, lock>>

\* for p in sequence: t.start(), one thread per turn of the loop, in the
\* order of the sequence; after the last one main sleeps for ever.
StartListener(l) ==
    /\ mainpc = "start"
    /\ l <= Len(sequence)
    /\ lpc[l] = "unstarted"
    /\ \A j \in 1..(l - 1) : lpc[j] # "unstarted"
    /\ lpc' = [lpc EXCEPT ![l] = "bind"]
    /\ mainpc' = IF l = Len(sequence) THEN "serving" ELSE "start"
    /\ UNCHANGED <<sequence, fw, state, clock, lknock, revokers,
                   run, last, shadow, completed, opened, revoked, knocks, lock>>

\* The socket of listener j is listening: its thread is in the while loop.
Listening(j) ==
    lpc[j] \in {"accept", "register", "locked", "read", "open", "start_revoke"}

\* Another listening socket has the port of listener l.  Port 0 gives every
\* socket an ephemeral port of its own.
PortInUse(l) ==
    /\ sequence[l] # 0
    /\ \E j \in 1..Len(sequence) :
          j # l /\ sequence[j] = sequence[l] /\ Listening(j)

\* srv.bind(("0.0.0.0", port)) in the thread of listener l: OverflowError
\* for a port outside 0..65535, OSError when a listening socket has the
\* port (SO_REUSEADDR lets two sockets that are not listening share it);
\* either ends the thread.
Bind(l) ==
    /\ lpc[l] = "bind"
    /\ lpc' = [lpc EXCEPT ![l] =
                 IF sequence[l] \notin 0..65535 \/ PortInUse(l)
                 THEN "bind_error" ELSE "listen"]
    /\ UNCHANGED <<sequence, mainpc, fw, state, clock, lknock, revokers,
                   run, last, shadow, completed, opened, revoked, knocks, lock>>

\* srv.listen(200): OSError, which ends the thread, when a listening socket
\* has the port; otherwise on to srv.accept().
Listen(l) ==
    /\ lpc[l] = "listen"
    /\ lpc' = [lpc EXCEPT ![l] =
                 IF PortInUse(l) THEN "listen_error" ELSE "accept"]
    /\ UNCHANGED <<sequence, mainpc, fw, state, clock, lknock, revokers,
                   run, last, shadow, completed, opened, revoked, knocks, lock>>

(* --------------------------------------------------- listener threads *)
\* _listen_tcp: srv.accept(), conn.close(), on_knock(ip, port) and the
\* first statement of register_knock, now = time.time(), read before the
\* lock is taken.  err tells whether conn.close() raised: the finally clause
\* calls on_knock all the same, and the exception goes on once it returns.
AcceptConn(l, ip, err) ==
    /\ lpc[l] = "accept"
    /\ knocks < MaxKnocks
    /\ clock <= MaxClock
    /\ lknock' = [lknock EXCEPT ![l] =
                    [ip |-> ip, port |-> sequence[l], now |-> clock,
                     err |-> err, seen |-> <<>>]]
    /\ lpc' = [lpc EXCEPT ![l] = "register"]
    /\ knocks' = knocks + 1
    /\ UNCHANGED <<sequence, mainpc, fw, state, clock, revokers,
                   run, last, shadow, completed, opened, revoked, lock>>

\* A connection accepted and closed without error.
Accept(l, ip) == AcceptConn(l, ip, FALSE)

\* A connection whose conn.close() raises OSError.
CloseError(l, ip) == AcceptConn(l, ip, TRUE)

\* srv.accept() raises OSError: the call is outside any try, so the
\* exception leaves the while loop and the listener thread ends.
AcceptError(l) ==
    /\ lpc[l] = "accept"
    /\ lpc' = [lpc EXCEPT ![l] = "oserror"]
    /\ UNCHANGED <<sequence, mainpc, fw, state, clock, lknock, revokers,
                   run, last, shadow, completed, opened, revoked, knocks, lock>>

\* Where the listener is once on_knock has returned: back at srv.accept(),
\* or ended by the pending exception of conn.close(), which nothing catches.
Resume(k, pc) == IF pc = "accept" /\ k.err THEN "oserror" ELSE pc

\* The run of an address after one more call: the call extends it when its
\* port is the next port of the sequence, starts a new one when it is the
\* first port, and ends it otherwise.
NextRun(seq, r, call) ==
    IF Len(r) < Len(seq) /\ call.port = seq[Len(r) + 1] THEN Append(r, call)
    ELSE IF call.port = seq[1] THEN <<call>>
    ELSE <<>>

\* Mutant of on_knock: the result of register_knock is not tested.
on_knockUntested(ret) ==
    CASE ret \in {"True", "False"} -> "open"
      [] OTHER -> "crashed"

\* on_knock and the loop of _listen_tcp: where the listener goes with the
\* result of register_knock.
on_knock(ret) ==
    CASE ret = "True" -> "open"
      [] ret = "False" -> "accept"
      [] OTHER -> "crashed"

\* The body of register_knock run by listener l on the dict st.  A True
\* result sends the listener into open_protected_port_for_ip, an IndexError
\* ends the listener thread, anything else returns it to accept().
RegisterBody(l, st) ==
    /\ LET k == lknock[l]
           r == register_knock(sequence, st, k.ip, k.port, k.now)
       IN  /\ state' = r.state
           /\ lpc' = [lpc EXCEPT ![l] = Resume(k, on_knock(r.ret))]
           /\ lknock' = [lknock EXCEPT ![l] =
                           IF on_knock(r.ret) = "open"
                           THEN [@ EXCEPT !.seen = <<>>] ELSE NoKnock]
    /\ UNCHANGED <<sequence, mainpc, fw, clock, revokers, opened, revoked,
                   knocks>>

\* The record of that call in the history variables.
RegisterRecord(l, st) ==
    LET k == lknock[l]
        r == register_knock(sequence, st, k.ip, k.port, k.now)
        s == register_knock(sequence, shadow[k.ip], k.ip, k.port, k.now)
        call == [l |-> l, ip |-> k.ip, port |-> k.port, now |-> k.now,
                 pre |-> Get(st, k.ip),
                 prev |-> IF run[k.ip] = <<>> THEN "None"
                          ELSE run[k.ip][Len(run[k.ip])].ret,
                 ret |-> r.ret, alone |-> s.ret]
    IN  /\ shadow' = [shadow EXCEPT ![k.ip] = s.state]
        /\ last' = call
        /\ run' = [run EXCEPT ![k.ip] = NextRun(sequence, @, call)]
        /\ completed' = [completed EXCEPT ![k.ip] =
                            IF r.ret = "True" THEN @ + 1 ELSE @]

Register(l, st) == RegisterBody(l, st) /\ RegisterRecord(l, st)

\* register_knock from now = time.time() on: the body runs under self.lock,
\* so as one step.
RegisterKnock(l) ==
    /\ lpc[l] = "register"
    /\ Register(l, state)
    /\ UNCHANGED lock

\* The same step with the calls left out of run, last and shadow, which no
\* step of the server reads.
RegisterKnockUnrecorded(l) ==
    /\ lpc[l] = "register"
    /\ RegisterBody(l, state)
    /\ UNCHANGED <<lock, run, last, shadow, completed>>

\* Mutant of AcquireLock: the body is entered without waiting for the lock.
AcquireLockNoWait(l) ==
    /\ lpc[l] = "register"
    /\ lock' = l
    /\ lpc' = [lpc EXCEPT ![l] = "locked"]
    /\ UNCHANGED <<sequence, mainpc, fw, state, clock, lknock, revokers,
                   run, last, shadow, completed, opened, revoked, knocks>>

\* with self.lock: the listener waits until the lock is free and takes it.
AcquireLock(l) ==
    /\ lpc[l] = "register"
    /\ lock = 0
    /\ lock' = l
    /\ lpc' = [lpc EXCEPT ![l] = "locked"]
    /\ UNCHANGED <<sequence, mainpc, fw, state, clock, lknock, revokers,
                   run, last, shadow, completed, opened, revoked, knocks>>

\* The reads of the body: ip not in self.state, idx, start = self.state[ip].
ReadEntry(l) ==
    /\ lpc[l] = "locked"
    /\ lknock' = [lknock EXCEPT ![l].seen = Get(state, lknock[l].ip)]
    /\ lpc' = [lpc EXCEPT ![l] = "read"]
    /\ UNCHANGED <<sequence, mainpc, fw, state, clock, revokers, run, last,
                   shadow, completed, opened, revoked, knocks, lock>>

\* The dict as the body of listener l has read it: its own key as it was at
\* ReadEntry, the other keys untouched by the body.
Seen(l) ==
    IF lknock[l].seen = <<>> THEN Del(state, lknock[l].ip)
    ELSE Put(state, lknock[l].ip, lknock[l].seen)

\* The writes of the body, its return and the release of the lock.
WriteEntry(l) ==
    /\ lpc[l] = "read"
    /\ Register(l, Seen(l))
    /\ lock' = 0

\* open_protected_port_for_ip, line 56: iptables -I INPUT 1 ... -j ACCEPT,
\* run and awaited in the listener thread.
OpenInsert(l) ==
    /\ lpc[l] = "open"
    /\ fw' = InsertRule(fw, lknock[l].ip)
    /\ opened' = [opened EXCEPT ![lknock[l].ip] = @ + 1]
    /\ lpc' = [lpc EXCEPT ![l] = "start_revoke"]
    /\ UNCHANGED <<sequence, mainpc, state, clock, lknock, revokers, run,
                   last, shadow, completed, revoked, knocks, lock>>

\* open_protected_port_for_ip, line 66: the revoke thread is started, not
\* yet asleep (wake = -1); the listener returns to the loop of _listen_tcp.
OpenStartRevoke(l) ==
    /\ lpc[l] = "start_revoke"
    /\ revokers' = Append(revokers,
          [ip |-> lknock[l].ip, wake |-> -1, left |-> RevokeAttempts])
    /\ lpc' = [lpc EXCEPT ![l] = Resume(lknock[l], "accept")]
    /\ lknock' = [lknock EXCEPT ![l] = NoKnock]
    /\ UNCHANGED <<sequence, mainpc, fw, state, clock, run, last, shadow,
                   completed, opened, revoked, knocks, lock>>

(* ----------------------------------------------------- revoke threads *)
\* The threads of a list but the i-th.
Without(s, i) == SubSeq(s, 1, i - 1) \o SubSeq(s, i + 1, Len(s))

\* revoke, line 60: the thread calls time.sleep(ttl), which returns ttl
\* seconds after the call.
RevokeSleep(i) ==
    /\ i \in DOMAIN revokers
    /\ revokers[i].wake = -1
    /\ revokers' = [revokers EXCEPT ![i].wake = clock + open_ttl]
    /\ UNCHANGED <<sequence, mainpc, fw, state, clock, lpc, lknock, run, last,
                   shadow, completed, opened, revoked, knocks, lock>>

\* One iteration of the delete loop of revoke, once time.sleep(ttl) is over;
\* the thread ends with the last one.
RevokeDelete(i) ==
    /\ i \in DOMAIN revokers
    /\ revokers[i].wake # -1
    /\ clock >= revokers[i].wake
    /\ fw' = DeleteRule(fw, revokers[i].ip)
    /\ revokers' = IF revokers[i].left > 1
                   THEN [revokers EXCEPT ![i].left = @ - 1]
                   ELSE Without(revokers, i)
    /\ revoked' = [revoked EXCEPT ![revokers[i].ip] =
                      @ + CountRule(fw, revokers[i].ip)
                        - CountRule(fw', revokers[i].ip)]
    /\ UNCHANGED <<sequence, mainpc, state, clock, lpc, lknock,
                   run, last, shadow, completed, opened, knocks, lock>>

(* --------------------------------------------------------------- time *)
\* Time passes up to MaxClock, and beyond it while a revoke thread sleeps.
Sleeping == \E i \in DOMAIN revokers : revokers[i].wake > clock

Tick ==
    /\ clock < MaxClock \/ Sleeping
    /\ clock' = clock + 1
    /\ UNCHANGED <<sequence, mainpc, fw, state, lpc, lknock, revokers,
                   run, last, shadow, completed, opened, revoked, knocks, lock>>

Next ==
    \/ EnsureDefaultBlockDelete
    \/ EnsureDefaultBlockAppend
    \/ NewTracker
    \/ \E l \in Listeners : StartListener(l)
    \/ \E l \in Listeners : Bind(l)
    \/ \E l \in Listeners : Listen(l)
    \/ \E l \in Listeners, ip \in IPs : Accept(l, ip)
    \/ \E l \in Listeners : RegisterKnock(l)
    \/ \E l \in Listeners : OpenInsert(l)
    \/ \E l \in Listeners : OpenStartRevoke(l)
    \/ \E i \in 1..MaxKnocks : RevokeSleep(i)
    \/ \E i \in 1..MaxKnocks : RevokeDelete(i)
    \/ Tick

Spec == Init /\ [][Next]_vars

\* Time passes, a listener that has inserted a rule goes on to start the
\* revoke thread, and the revoke threads, threads of a live process, are
\* scheduled.  The runs are those of the sequences shorter than the default,
\* with which one address is opened twice within MaxKnocks knocks, and the
\* calls of register_knock are not recorded: the rules of the chain depend on
\* the steps of the server only.
Revoking ==
    \/ Tick
    \/ \E l \in Listeners : OpenStartRevoke(l)
    \/ \E i \in 1..MaxKnocks : RevokeSleep(i)
    \/ \E i \in 1..MaxKnocks : RevokeDelete(i)

ShortInit == Init /\ sequence # DEFAULT_KNOCK_SEQUENCE

FairNext ==
    \/ EnsureDefaultBlockDelete
    \/ EnsureDefaultBlockAppend
    \/ NewTracker
    \/ \E l \in Listeners : StartListener(l)
    \/ \E l \in Listeners : Bind(l)
    \/ \E l \in Listeners : Listen(l)
    \/ \E l \in Listeners, ip \in IPs : Accept(l, ip)
    \/ \E l \in Listeners : RegisterKnockUnrecorded(l)
    \/ \E l \in Listeners : OpenInsert(l)
    \/ \E l \in Listeners : OpenStartRevoke(l)
    \/ \E i \in 1..MaxKnocks : RevokeSleep(i)
    \/ \E i \in 1..MaxKnocks : RevokeDelete(i)
    \/ Tick

FairSpec == ShortInit /\ [][FairNext]_vars /\ WF_vars(Revoking)

\* The server with connections that fail: srv.accept() or conn.close()
\* raising an OS-level socket error.
ErrNext ==
    \/ Next
    \/ \E l \in Listeners : AcceptError(l)
    \/ \E l \in Listeners, ip \in IPs : CloseError(l, ip)

ErrSpec == Init /\ [][ErrNext]_vars

\* The server from the start of main, with --sequence values of every kind.
ConfigNext == Main \/ Next

ConfigSpec == ConfigInit /\ [][ConfigNext]_vars

\* The server with the steps of register_knock apart: the lock taken, the
\* entry read, the entry written and the lock released.
LockNext ==
    \/ EnsureDefaultBlockDelete
    \/ EnsureDefaultBlockAppend
    \/ NewTracker
    \/ \E l \in Listeners : StartListener(l)
    \/ \E l \in Listeners : Bind(l)
    \/ \E l \in Listeners : Listen(l)
    \/ \E l \in Listeners, ip \in IPs : Accept(l, ip)
    \/ \E l \in Listeners : AcquireLock(l)
    \/ \E l \in Listeners : ReadEntry(l)
    \/ \E l \in Listeners : WriteEntry(l)
    \/ \E l \in Listeners : OpenInsert(l)
    \/ \E l \in Listeners : OpenStartRevoke(l)
    \/ \E i \in 1..MaxKnocks : RevokeSleep(i)
    \/ \E i \in 1..MaxKnocks : RevokeDelete(i)
    \/ Tick

\* Two ports, so two listeners, with which an address completes the sequence
\* twice within MaxKnocks knocks.
LockInit == Init /\ Len(sequence) = 2

LockSpec == LockInit /\ [][LockNext]_vars

\* The server started again on a host where an earlier run has left its DROP
\* rule: _ensure_default_block runs for the second time on that chain.
RestartInit == Init /\ fw = <<DROP>>

RestartSpec == RestartInit /\ [][Next]_vars

(* ------------------------------------------------------------- properties *)
\* Calls of open_protected_port_for_ip a listener is about to make for ip.
Pending(ip) ==
    Cardinality({l \in Listeners : lpc[l] = "open" /\ lknock[l].ip = ip})

\* The run of ip is the whole sequence, begun with no tracked state, every
\* knock within the window of the first.
InOrderRun(ip) ==
    /\ Len(run[ip]) = Len(sequence)
    /\ run[ip][1].pre = <<>>
    /\ \A i \in DOMAIN run[ip] : run[ip][i].now - run[ip][1].now <= window

\* The window of the last call had expired / was still open.
LastExpired == last.pre # <<>> /\ last.now - last.pre[2] > window
LastInWindow == last.pre # <<>> /\ last.now - last.pre[2] <= window

\* The entry the address of the last call has after a reset.
ResetEntry == IF last.port = sequence[1] THEN <<1, last.now>> ELSE <<>>

\* C1: the ports of the sequence knocked in order from no tracked state,
\* each within the window of the first, return False on every knock but the
\* last and True on the last, and every True is matched by one Open call.
C1_InOrderCompletesOnce ==
    \A ip \in IPs :
        InOrderRun(ip) =>
            /\ \A i \in 1..(Len(sequence) - 1) : run[ip][i].ret = "False"
            /\ run[ip][Len(sequence)].ret = "True"
            /\ completed[ip] >= 1
            /\ opened[ip] + Pending(ip) = completed[ip]

\* C2: register_knock returns True only when the last len(sequence) calls
\* for that ip were the ports of the sequence in order, each within the
\* window of the first, and every advance kept the start time of the first.
C2_TrueOnlyAfterSequence ==
    last.ret = "True" =>
        LET r == run[last.ip]
        IN  /\ Len(r) = Len(sequence)
            /\ [i \in DOMAIN r |-> r[i].port] = sequence
            /\ r[Len(r)] = last
            /\ \A i \in DOMAIN r : r[i].now - r[1].now <= window
            /\ \A i \in 2..Len(r) : r[i].pre = <<i - 1, r[1].now>>

C2_Witness ==
    /\ last.ret = "True"
    /\ Len(sequence) = 3
    /\ last.now = last.pre[2] + window

\* C3: open_protected_port_for_ip is called once for every True result for
\* that address and never otherwise, so an ACCEPT rule for an address is in
\* the chain only if that address completed the sequence.
C3_OpenOnlyOnCompletion ==
    \A ip \in IPs :
        /\ opened[ip] + Pending(ip) = completed[ip]
        /\ CountRule(fw, ip) <= opened[ip]
        /\ CountRule(fw, ip) > 0 => completed[ip] > 0

C3_Witness ==
    \E a, b \in IPs :
        /\ a # b
        /\ CountRule(fw, a) > 0
        /\ opened[a] = 1
        /\ b \in DOMAIN state
        /\ completed[b] = 0

\* C4: from an Open at t0 until t0 + ttl an ACCEPT rule for the address is
\* in the chain, whatever other Opens of the address came before or after.
\* The Open of a listener that has inserted its rule and has not returned
\* began at or after the knock that completed the sequence, so less than ttl
\* after that knock the rule is there.
C4_AllowedForTtl ==
    \A l \in Listeners :
        (lpc[l] = "start_revoke" /\ clock < lknock[l].now + open_ttl)
            => CountRule(fw, lknock[l].ip) > 0

\* C5: once the address is opened no more, no ACCEPT rule for it remains in
\* the end: the revoke threads of its Opens delete them all.
C5_RulesExpire ==
    <>[](\A ip \in IPs : CountRule(fw, ip) = 0)

C5_Witness ==
    \E ip \in IPs :
        /\ opened[ip] = 2
        /\ CountRule(fw, ip) = 0
        /\ revokers = <<>>

\* C6: a knock on an in-progress address whose window has expired returns
\* False, whatever the port, and leaves <<1, now>> if the port is the first of
\* the sequence and no entry otherwise.
C6_ExpiredWindowResets ==
    LastExpired =>
        /\ last.ret = "False"
        /\ Get(state, last.ip) = ResetEntry

C6_Witness ==
    /\ LastExpired
    /\ sequence = <<1234, 5678, 9012>>
    /\ last.pre[1] = 2
    /\ last.port = 9012
    /\ last.ip \notin DOMAIN state

\* C7: within the window, a knock on a port other than the expected one
\* returns False and drops all progress: it leaves <<1, now>> if the port is
\* the first of the sequence and no entry otherwise.
C7_WrongKnockResets ==
    (/\ LastInWindow
     /\ last.pre[1] < Len(sequence)
     /\ last.port # At(sequence, last.pre[1])) =>
        /\ last.ret = "False"
        /\ Get(state, last.ip) = ResetEntry

C7_Witness ==
    /\ LastInWindow
    /\ sequence = <<1234, 5678, 9012>>
    /\ \/ last.pre[1] = 1 /\ last.port = 9012
       \/ last.pre[1] = 2 /\ last.port = 5678
    /\ last.ip \notin DOMAIN state

\* C8: a knock from an address with no entry returns False; it creates
\* <<1, now>> on the first port of the sequence and nothing on any other.
C8_AbsentStartsOnlyOnFirst ==
    (last.ret # "None" /\ last.pre = <<>>) =>
        /\ last.ret = "False"
        /\ Get(state, last.ip) = ResetEntry

C8_Witness ==
    /\ last.pre = <<>>
    /\ last.port = 5678
    /\ last.ip \notin DOMAIN state
    /\ \E ip \in IPs : Get(state, ip) = <<1, clock>>

\* C9: the entry of every address, and the result of every call, are what
\* a tracker that saw only that address's knocks has and returns.
C9_AddressIsolation ==
    /\ \A ip \in IPs :
          /\ Get(state, ip) = Get(shadow[ip], ip)
          /\ DOMAIN shadow[ip] \subseteq {ip}
    /\ last.ret = last.alone

C9_Witness ==
    \E a, b \in IPs :
        /\ a # b
        /\ a \in DOMAIN state /\ state[a][1] = 2
        /\ b \in DOMAIN state /\ state[b][1] = 1
        /\ state[b][2] > state[a][2]
        /\ last.ip = a

\* C10: the call that returns True removes the entry, and a knock right
\* after it on a port other than the first returns False, leaves no entry
\* and sends the listener to no second Open.
C10_CompletionRemovesState ==
    /\ last.ret = "True" => last.ip \notin DOMAIN state
    /\ (last.prev = "True" /\ last.port # sequence[1]) =>
          /\ last.pre = <<>>
          /\ last.ret = "False"
          /\ last.ip \notin DOMAIN state
          /\ lpc[last.l] # "open"

C10_Witness ==
    /\ last.prev = "True"
    /\ last.port = sequence[Len(sequence)]
    /\ Len(sequence) > 1
    /\ completed[last.ip] = 1

\* C11 as stated: on a chain that already has the DROP rule, a DROP rule is
\* there in every state during and after _ensure_default_block.
C11_DropAlwaysPresent == CountRule(fw, DROP) >= 1

\* C11: on a chain that already has the DROP rule, once
\* _ensure_default_block has returned the chain has the DROP rule, and only
\* one; between its delete command and its append command there is none.
C11_DropAfterCall ==
    /\ mainpc \in {"tracker", "start", "serving"} => CountRule(fw, DROP) = 1
    /\ mainpc = "ensure_append" => CountRule(fw, DROP) = 0

C11_Witness ==
    /\ mainpc = "serving"
    /\ CountRule(fw, DROP) = 1
    /\ \E ip \in IPs : opened[ip] > 0 /\ CountRule(fw, ip) = 0
    /\ revokers = <<>>

\* C12: while a listener is inside open_protected_port_for_ip for one
\* address, a knock of another address on any port of the sequence, the port
\* of that listener among them, can be accepted.
C12_OpenDoesNotBlockListener ==
    \A m \in Listeners, l \in 1..Len(sequence), b \in IPs :
        (/\ lpc[m] = "open"
         /\ b # lknock[m].ip
         /\ lpc[l] \in {"accept", "open"}
         /\ knocks < MaxKnocks
         /\ clock <= MaxClock) => ENABLED Accept(l, b)

\* The revoke threads of an address that have not ended.
LiveRevokers(ip) == {i \in DOMAIN revokers : revokers[i].ip = ip}

\* Open calls for an address that have inserted the rule and not yet
\* started the revoke thread.
Starting(ip) ==
    {l \in Listeners : lpc[l] = "start_revoke" /\ lknock[l].ip = ip}

\* Revoke threads of an address that have made at least one delete attempt.
Fired(ip) ==
    opened[ip] - Cardinality(Starting(ip))
               - Cardinality({i \in LiveRevokers(ip) :
                                 revokers[i].left = RevokeAttempts})

\* C13: an OS-level socket error raised by srv.accept() or by conn.close()
\* on one connection does not end the listener thread of the port.
C13_ConnectionErrorNotFatal == \A l \in Listeners : lpc[l] # "oserror"

\* A list of distinct positive port numbers.
ValidSequence(seq) ==
    /\ Len(seq) >= 1
    /\ \A i \in DOMAIN seq : seq[i] \in 1..65535
    /\ \A i, j \in DOMAIN seq : i # j => seq[i] # seq[j]

\* C14: main runs a firewall command and starts listeners only with a
\* --sequence that is a list of distinct positive port numbers; with any
\* other value the process exits with no rule installed and no listener.
C14_InvalidConfigIsFatal ==
    /\ mainpc \in {"ensure_append", "tracker", "start", "serving"}
          => ValidSequence(sequence)
    /\ mainpc = "exited" => \A l \in Listeners : lpc[l] = "unstarted"

\* C15: each revoke thread removes at most one ACCEPT rule of its address, so
\* the rules removed for an address are never more than its revoke threads
\* that have begun to delete.
C15_OneRulePerTimer == \A ip \in IPs : revoked[ip] <= Fired(ip)

\* Listeners inside the body of register_knock.
Inside == {l \in Listeners : lpc[l] \in {"locked", "read"}}

\* C16: at most one listener is inside the body of register_knock, and it
\* holds the lock; the entry it has read is still the entry of the dict when
\* it writes, so no update is lost; and the dict and every return value are
\* those of the calls run one after another in the order the lock was taken,
\* so a sequence is completed once.
C16_Serialized ==
    /\ Cardinality(Inside) <= 1
    /\ \A l \in Inside : lock = l
    /\ Inside = {} => lock = 0
    /\ \A l \in Listeners :
          lpc[l] = "read" => lknock[l].seen = Get(state, lknock[l].ip)
    /\ \A ip \in IPs : Get(state, ip) = Get(shadow[ip], ip)
    /\ last.ret = last.alone
    /\ \A ip \in IPs : completed[ip] = opened[ip] + Pending(ip)

C16_Witness ==
    \E l, m \in Listeners :
        /\ l # m
        /\ lpc[l] = "read"
        /\ lpc[m] = "register"
        /\ lknock[l].ip = lknock[m].ip
        /\ lknock[l].seen # <<>>
        /\ lknock[m].now < lknock[l].now

\* C17: every entry of the tracker is one pair for a key that is an address,
\* its index is in 1..len(sequence), the address has knocked that many ports
\* of the sequence in order, the first one among them, and the last of these
\* calls did not complete the sequence.
C17_TrackerStateShape ==
    /\ DOMAIN state \subseteq IPs
    /\ \A ip \in DOMAIN state :
          /\ Len(state[ip]) = 2
          /\ state[ip][1] \in 1..Len(sequence)
          /\ Len(run[ip]) = state[ip][1]
          /\ run[ip][1].port = sequence[1]
          /\ run[ip][Len(run[ip])].ret # "True"

C17_Witness ==
    \E a, b \in IPs :
        /\ a # b
        /\ a \in DOMAIN state /\ state[a][1] = Len(sequence) - 1
        /\ b \in DOMAIN state /\ state[b][1] = 1
        /\ Len(sequence) = 3
        /\ last.pre # <<>>

\* C18: in the INPUT chain every ACCEPT rule of an address stands before
\* every DROP rule of the protected port.
C18_AllowBeforeDrop ==
    \A i, j \in DOMAIN fw : (fw[i] = DROP /\ fw[j] \in IPs) => j < i

C18_Witness ==
    \E a, b \in IPs :
        /\ a # b
        /\ CountRule(fw, a) > 0
        /\ CountRule(fw, b) > 0
        /\ fw[Len(fw)] = DROP
        /\ mainpc = "serving"

\* C19: the ACCEPT rules of an address in the chain are never more than the
\* Open calls for it whose revoke thread has not ended, be it running or
\* yet to be started by the call.
C19_NoRuleLeak ==
    \A ip \in IPs :
        CountRule(fw, ip)
            <= Cardinality(LiveRevokers(ip)) + Cardinality(Starting(ip))

C19_Witness ==
    \E ip \in IPs :
        /\ Cardinality(LiveRevokers(ip)) = 2
        /\ CountRule(fw, ip) = 1
        /\ \E i \in LiveRevokers(ip) : revokers[i].left < RevokeAttempts

\* The last call moved its address forward in the sequence or completed it.
LastAdvanced ==
    /\ last.pre # <<>>
    /\ \/ last.ret = "True"
       \/ /\ last.ip \in DOMAIN state
          /\ state[last.ip][1] = last.pre[1] + 1

\* C20: a knock evaluated against an entry has a timestamp not earlier than
\* the start time of the entry, and a knock that advances or completes a
\* sequence has a timestamp not earlier than that of the knock that began it.
C20_TimestampOrder ==
    /\ last.pre # <<>> => last.now >= last.pre[2]
    /\ LastAdvanced => last.now >= last.pre[2]

====
